---- MODULE Spec2Model ----
(***************************************************************************)
(* Model of the two math blocks of pothos-comms:                           *)
(*   src/math/ConstArithmetic.cpp  (ConstArithmetic<T>, makeConstArithmetic)*)
(*   src/math/Angle.cpp            (Angle<InType,OutType>, angleFactory)    *)
(* One block handle is modelled: the factories build it, the host posts    *)
(* buffers on its two ports and calls work(), a control path calls         *)
(* setConstant()/constant().                                               *)
(***************************************************************************)
EXTENDS Integers, Sequences, FiniteSets, TLC

(***************************************************************************)
(* Bounds of the model.                                                    *)
(***************************************************************************)
MaxDim == 2        \* largest DType dimension requested
MaxElems == 2      \* largest element count the host posts on a port
MaxSetCalls == 1   \* setConstant calls per behaviour

(***************************************************************************)
(* C++ element types and Pothos::DType descriptors.                        *)
(***************************************************************************)
RealType(kind, bytes) == [kind |-> kind, bytes |-> bytes, cplx |-> FALSE]

\* std::complex<type>
Complex(type) == [type EXCEPT !.cplx = TRUE]

int8_t == RealType("int", 1)
int16_t == RealType("int", 2)
int32_t == RealType("int", 4)
int64_t == RealType("int", 8)
uint8_t == RealType("uint", 1)
uint16_t == RealType("uint", 2)
uint32_t == RealType("uint", 4)
uint64_t == RealType("uint", 8)
float == RealType("float", 4)
double == RealType("float", 8)

\* The scalar types a Pothos::DType can name, and the unspecified/custom one.
RealTypes == {int8_t, int16_t, int32_t, int64_t,
              uint8_t, uint16_t, uint32_t, uint64_t, float, double}
CustomType == [kind |-> "custom", bytes |-> 0, cplx |-> FALSE]
AllTypes == RealTypes \cup {Complex(t) : t \in RealTypes} \cup {CustomType}

\* Pothos::DType(typeid(type), dimension)
DType(type, dimension) ==
    [kind |-> type.kind, bytes |-> type.bytes, cplx |-> type.cplx,
     dim |-> dimension]

\* Pothos::DType::fromDType(dtype, dimension): same element type, new dimension
fromDType(dtype, dimension) == [dtype EXCEPT !.dim = dimension]

\* the C++ type a descriptor names
TypeOf(dtype) == [kind |-> dtype.kind, bytes |-> dtype.bytes, cplx |-> dtype.cplx]

DTypes == {DType(t, d) : t \in AllTypes, d \in 1..MaxDim}

(***************************************************************************)
(* Element values.  An integer lane is an Int; a floating lane is an exact *)
(* rational <<n, d>> in lowest terms, d > 0 (rounding is not modelled and  *)
(* the floating value lists hold no zero); a complex element is            *)
(* [re, im].  8- and 16-bit integers wrap at their width.  A 32- or 64-bit  *)
(* value is held as the two's-complement reading of its bit pattern (an    *)
(* unsigned 1 - 10 is held as -9); the value lists keep results far from   *)
(* the signed limits, and every divisor and dividend of a 32- or 64-bit    *)
(* unsigned division non-negative in that reading.                         *)
(***************************************************************************)
Abs(x) == IF x < 0 THEN -x ELSE x

RECURSIVE GCD(_, _)
GCD(a, b) == IF b = 0 THEN a ELSE GCD(b, a % b)

Rat(n, d) ==
    LET g == GCD(Abs(n), Abs(d))
        s == IF d < 0 THEN -1 ELSE 1
    IN  <<(s * n) \div g, (s * d) \div g>>

\* integral conversion of a promoted result back to the element type
Narrow(T, x) ==
    IF T.bytes > 2 THEN x
    ELSE LET M == 2 ^ (8 * T.bytes)
             m == x % M
         IN  IF T.kind = "int" /\ m >= M \div 2 THEN m - M ELSE m

\* C++ integer division truncates toward zero
TruncDiv(a, b) ==
    IF (a >= 0) = (b > 0) THEN Abs(a) \div Abs(b) ELSE -(Abs(a) \div Abs(b))

ScalarAdd(T, a, b) ==
    IF T.kind = "float" THEN Rat(a[1] * b[2] + b[1] * a[2], a[2] * b[2])
    ELSE Narrow(T, a + b)

ScalarSub(T, a, b) ==
    IF T.kind = "float" THEN Rat(a[1] * b[2] - b[1] * a[2], a[2] * b[2])
    ELSE Narrow(T, a - b)

ScalarMul(T, a, b) ==
    IF T.kind = "float" THEN Rat(a[1] * b[1], a[2] * b[2])
    ELSE Narrow(T, a * b)

\* b is not zero
ScalarDiv(T, a, b) ==
    IF T.kind = "float" THEN Rat(a[1] * b[2], a[2] * b[1])
    ELSE Narrow(T, TruncDiv(a, b))

\* operator+ of T
Add(T, a, b) ==
    IF T.cplx
    THEN [re |-> ScalarAdd(T, a.re, b.re), im |-> ScalarAdd(T, a.im, b.im)]
    ELSE ScalarAdd(T, a, b)

\* operator- of T
Sub(T, a, b) ==
    IF T.cplx
    THEN [re |-> ScalarSub(T, a.re, b.re), im |-> ScalarSub(T, a.im, b.im)]
    ELSE ScalarSub(T, a, b)

\* operator* of T; std::complex: (a.re*b.re - a.im*b.im, a.re*b.im + a.im*b.re)
Mul(T, a, b) ==
    IF T.cplx
    THEN [re |-> ScalarSub(T, ScalarMul(T, a.re, b.re), ScalarMul(T, a.im, b.im)),
          im |-> ScalarAdd(T, ScalarMul(T, a.re, b.im), ScalarMul(T, a.im, b.re))]
    ELSE ScalarMul(T, a, b)

\* std::norm of a complex divisor, in the element type
Norm(T, b) == ScalarAdd(T, ScalarMul(T, b.re, b.re), ScalarMul(T, b.im, b.im))

\* a / b divides by an integer zero: undefined behaviour
DivUndefined(T, a, b) ==
    /\ T.kind # "float"
    /\ IF T.cplx THEN Norm(T, b) = 0 ELSE b = 0

\* operator/ of T where it is defined; std::complex:
\* ((a.re*b.re + a.im*b.im) / norm(b), (a.im*b.re - a.re*b.im) / norm(b))
Div(T, a, b) ==
    IF T.cplx
    THEN LET n == Norm(T, b)
             r == ScalarAdd(T, ScalarMul(T, a.re, b.re), ScalarMul(T, a.im, b.im))
             i == ScalarSub(T, ScalarMul(T, a.im, b.re), ScalarMul(T, a.re, b.im))
         IN  [re |-> ScalarDiv(T, r, n), im |-> ScalarDiv(T, i, n)]
    ELSE ScalarDiv(T, a, b)

(***************************************************************************)
(* What an integer division by zero can leave in a lane when it does not   *)
(* trap: the quotient register is whatever the target defines (0 on ARM)   *)
(* or holds; two values stand for it.                                      *)
(***************************************************************************)
UBOutcomes == {"trap", "zero", "ones"}

GarbageScalar(T, ub) == IF ub = "zero" THEN 0 ELSE Narrow(T, -1)

Garbage(T, ub) ==
    IF T.cplx THEN [re |-> GarbageScalar(T, ub), im |-> GarbageScalar(T, ub)]
    ELSE GarbageScalar(T, ub)

\* in / k as one build executes it
DivLane(T, a, b, ub) == IF DivUndefined(T, a, b) THEN Garbage(T, ub) ELSE Div(T, a, b)

(***************************************************************************)
(* The values the host feeds: per element type a short list for stream     *)
(* elements and one for constants.                                         *)
(***************************************************************************)
ScalarStream(T) ==
    CASE T.kind = "int" ->
           <<1, 2, 3, 0,
             IF T.bytes = 1 THEN -128 ELSE IF T.bytes = 2 THEN -32768 ELSE -7>>
      [] T.kind = "uint" ->
           <<1, 2, 3, 0,
             IF T.bytes = 1 THEN 255 ELSE IF T.bytes = 2 THEN 40000 ELSE 9>>
      [] T.kind = "float" -> <<<<1, 1>>, <<2, 1>>, <<-3, 1>>, <<1, 2>>>>

ScalarConstants(T) ==
    CASE T.kind = "int" ->
           << IF T.bytes = 1 THEN 100 ELSE IF T.bytes = 2 THEN 20000 ELSE 10, 0 >>
      [] T.kind = "uint" -> <<10, 0>>
      [] T.kind = "float" -> <<<<3, 1>>, <<10, 1>>>>

\* complex elements pair neighbours of the scalar list
Pairs(s) == [i \in 1..Len(s) |-> [re |-> s[i], im |-> s[(i % Len(s)) + 1]]]

\* 32/64-bit unsigned complex: elements on one ray, which keeps the numerators
\* of a complex quotient non-negative
WideUnsigned(T) == T.kind = "uint" /\ T.bytes > 2

StreamValues(T) ==
    IF ~T.cplx THEN ScalarStream(T)
    ELSE IF WideUnsigned(T)
         THEN <<[re |-> 1, im |-> 2], [re |-> 2, im |-> 4], [re |-> 3, im |-> 6],
                [re |-> 0, im |-> 0], [re |-> 4, im |-> 8]>>
         ELSE Pairs(ScalarStream(T))

ConstantValues(T) ==
    IF ~T.cplx THEN ScalarConstants(T)
    ELSE IF WideUnsigned(T)
         THEN <<[re |-> 5, im |-> 10], [re |-> 0, im |-> 0]>>
         ELSE Pairs(ScalarConstants(T))

Range(s) == {s[i] : i \in DOMAIN s}

\* the first len elements of the stream of T: its value list, repeated
StreamBuffer(T, len) ==
    LET s == StreamValues(T)
    IN  [i \in 1..len |-> s[((i - 1) % Len(s)) + 1]]

(***************************************************************************)
(* Kernels (scalar build).  A kernel value is the pair of the getter that  *)
(* returned it and the element type it was instantiated for; the loops     *)
(* below are the bodies of the lambdas.  Each returns out[0..num-1].       *)
(***************************************************************************)
XPlusK(T, in, k, num, ub) == [i \in 1..num |-> Add(T, in[i], k)]

XSubK(T, in, k, num, ub) == [i \in 1..num |-> Sub(T, in[i], k)]

\* variant: the operands of K-X swapped
KSubX_Swapped(T, in, k, num, ub) == [i \in 1..num |-> Sub(T, in[i], k)]

KSubX(T, in, k, num, ub) == [i \in 1..num |-> Sub(T, k, in[i])]

XMultK(T, in, k, num, ub) == [i \in 1..num |-> Mul(T, in[i], k)]

XDivK(T, in, k, num, ub) == [i \in 1..num |-> DivLane(T, in[i], k, ub)]

KDivX(T, in, k, num, ub) == [i \in 1..num |-> DivLane(T, k, in[i], ub)]

getXPlusKFcn(T) == [fcn |-> "XPlusK", T |-> T]
getXSubKFcn(T) == [fcn |-> "XSubK", T |-> T]
getKSubXFcn(T) == [fcn |-> "KSubX", T |-> T]
getXMultKFcn(T) == [fcn |-> "XMultK", T |-> T]
getXDivKFcn(T) == [fcn |-> "XDivK", T |-> T]
getKDivXFcn(T) == [fcn |-> "KDivX", T |-> T]

\* _func(buffIn, _constant, buffOut, num)
CallArithFcn(func, in, k, num, ub) ==
    CASE func.fcn = "XPlusK" -> XPlusK(func.T, in, k, num, ub)
      [] func.fcn = "XSubK" -> XSubK(func.T, in, k, num, ub)
      [] func.fcn = "KSubX" -> KSubX(func.T, in, k, num, ub)
      [] func.fcn = "XMultK" -> XMultK(func.T, in, k, num, ub)
      [] func.fcn = "XDivK" -> XDivK(func.T, in, k, num, ub)
      [] func.fcn = "KDivX" -> KDivX(func.T, in, k, num, ub)

\* some lane of the call divides by an integer zero
HitsUB(func, in, k, num) ==
    \E i \in 1..num :
        \/ func.fcn = "XDivK" /\ DivUndefined(func.T, in[i], k)
        \/ func.fcn = "KDivX" /\ DivUndefined(func.T, k, in[i])

\* getAngle of FxptHelpers.hpp, left uninterpreted
getAngle(x) == [angleOf |-> x]

AngleLoop(in, num) == [i \in 1..num |-> getAngle(in[i])]

getAngleFcn(InType, OutType) == [fcn |-> "Angle", T |-> InType]

NullFcn == [fcn |-> "null", T |-> CustomType]

(***************************************************************************)
(* Factories: the chains of `if (type and operation match) return new ...` *)
(* that the macros expand to, in source order.                             *)
(***************************************************************************)
ArithIfTypeDeclareFactory__(type, opKey, func) ==
    [type |-> type, opKey |-> opKey, func |-> func]

ArithIfTypeDeclareFactory_(type) ==
    << ArithIfTypeDeclareFactory__(type, "X+K", getXPlusKFcn(type)),
       ArithIfTypeDeclareFactory__(type, "X-K", getXSubKFcn(type)),
       ArithIfTypeDeclareFactory__(type, "K-X", getKSubXFcn(type)),
       ArithIfTypeDeclareFactory__(type, "X*K", getXMultKFcn(type)),
       ArithIfTypeDeclareFactory__(type, "X/K", getXDivKFcn(type)),
       ArithIfTypeDeclareFactory__(type, "K/X", getKDivXFcn(type)) >>

\* variant: the std::complex instantiation left out of the chain
ArithIfTypeDeclareFactory_RealOnly(type) == ArithIfTypeDeclareFactory_(type)

ArithIfTypeDeclareFactory(type) ==
    ArithIfTypeDeclareFactory_(type) \o ArithIfTypeDeclareFactory_(Complex(type))

ArithChain ==
    ArithIfTypeDeclareFactory(int8_t) \o ArithIfTypeDeclareFactory(int16_t) \o
    ArithIfTypeDeclareFactory(int32_t) \o ArithIfTypeDeclareFactory(int64_t) \o
    ArithIfTypeDeclareFactory(uint8_t) \o ArithIfTypeDeclareFactory(uint16_t) \o
    ArithIfTypeDeclareFactory(uint32_t) \o ArithIfTypeDeclareFactory(uint64_t) \o
    ArithIfTypeDeclareFactory(float) \o ArithIfTypeDeclareFactory(double)

\* the condition of one `if` of makeConstArithmetic
ArithMatches(entry, dtype, operation) ==
    /\ fromDType(dtype, 1) = DType(entry.type, 1)
    /\ entry.opKey = operation

AngleIfTypeDeclareFactory_(intype, outtype) == [intype |-> intype, outtype |-> outtype]

AngleIfTypeDeclareFactory(type) == AngleIfTypeDeclareFactory_(Complex(type), type)

AngleChain ==
    << AngleIfTypeDeclareFactory(double), AngleIfTypeDeclareFactory(float),
       AngleIfTypeDeclareFactory(int64_t), AngleIfTypeDeclareFactory(int32_t),
       AngleIfTypeDeclareFactory(int16_t), AngleIfTypeDeclareFactory(int8_t) >>

\* variant: the test looks at complexness and width only
AngleMatches_IgnoreKind(entry, dtype) ==
    /\ dtype.cplx = entry.intype.cplx
    /\ dtype.bytes = entry.intype.bytes

\* the condition of one `if` of angleFactory
AngleMatches(entry, dtype) == fromDType(dtype, 1) = DType(entry.intype, 1)

\* index of the first `if` that is taken, 0 when the chain falls through
FirstTaken(hits) == IF hits = {} THEN 0 ELSE CHOOSE i \in hits : \A j \in hits : i <= j

ArithFirst(dtype, operation) ==
    FirstTaken({i \in DOMAIN ArithChain : ArithMatches(ArithChain[i], dtype, operation)})

AngleFirst(dtype) ==
    FirstTaken({i \in DOMAIN AngleChain : AngleMatches(AngleChain[i], dtype)})

\* Pothos::DType::toString()
DTypeName(dtype) ==
    IF dtype.kind = "custom" THEN "custom"
    ELSE (IF dtype.cplx THEN "complex_" ELSE "") \o dtype.kind \o ToString(8 * dtype.bytes)

toString(dtype) ==
    IF dtype.dim = 1 THEN DTypeName(dtype)
    ELSE DTypeName(dtype) \o " [" \o ToString(dtype.dim) \o "]"

NoError == [exception |-> "none", source |-> "", message |-> ""]

ArithInvalidArgument(dtype, operation) ==
    [exception |-> "InvalidArgumentException",
     source |-> "makeConstArithmetic(" \o toString(dtype) \o ", operation=" \o operation \o ")",
     message |-> "unsupported args"]

AngleInvalidArgument(dtype) ==
    [exception |-> "InvalidArgumentException",
     source |-> "angleFactory(" \o toString(dtype) \o ")",
     message |-> "unsupported type"]

\* Pothos::Object::convert<type>() of an object that holds no number
ConvertError == [exception |-> "ObjectConvertError", source |-> "convert", message |-> ""]

\* Pothos::Object arguments: a number convertible to the element type, or not
Object(v) == [convertible |-> TRUE, value |-> v]
NotANumber == [convertible |-> FALSE, value |-> "text"]

Operations == {"X+K", "X-K", "K-X", "X*K", "X/K", "K/X"}
OtherOperations == {"K+X", ""}

(***************************************************************************)
(* State.                                                                  *)
(***************************************************************************)
VARIABLES
    block,       \* "none", "ConstArithmetic" or "Angle": the class of the block built
    elemT,       \* template argument T (InType for Angle)
    _constant,   \* ConstArithmetic::_constant
    _func,       \* ConstArithmetic::_func / Angle::_fcn
    inPort,      \* input port 0: dtype, elements available, buffer behind the pointer
    outPort,     \* output port 0: dtype, elements of room available
    signals,     \* number of "constantChanged" emissions so far
    lastSignal,  \* argument of the latest emission
    lastOp,      \* the call that ran last
    request,     \* arguments of the factory call
    thrown,      \* what the latest call threw
    events,      \* what the latest call did, in program order
    setCalls,    \* number of setConstant calls made by the control path
    lastSetArg,  \* argument of the latest setConstant (the constructor's included)
    crashed      \* the process died in a kernel

vars == <<block, elemT, _constant, _func, inPort, outPort, signals, lastSignal,
          lastOp, request, thrown, events, setCalls, lastSetArg, crashed>>

unitVars == <<block, elemT, _constant, _func, inPort, outPort, signals, lastSignal>>

Event(ev, arg) == [ev |-> ev, arg |-> arg]

NoDType == DType(CustomType, 1)
NoInPort == [setup |-> FALSE, dtype |-> NoDType, elements |-> 0, buffer |-> <<>>]
NoOutPort == [setup |-> FALSE, dtype |-> NoDType, elements |-> 0]
NoRequest == [factory |-> "", dtype |-> NoDType, operation |-> "", constant |-> NotANumber]

Init ==
    /\ block = "none"
    /\ elemT = CustomType
    /\ _constant = "unset"
    /\ _func = NullFcn
    /\ inPort = NoInPort
    /\ outPort = NoOutPort
    /\ signals = 0
    /\ lastSignal = "unset"
    /\ lastOp = "none"
    /\ request = NoRequest
    /\ thrown = NoError
    /\ events = <<>>
    /\ setCalls = 0
    /\ lastSetArg = "unset"
    /\ crashed = FALSE

\* Pothos::Block::setupInput(0, dtype): a port with nothing posted on it yet
setupInput(dtype) == [setup |-> TRUE, dtype |-> dtype, elements |-> 0, buffer |-> <<>>]

\* Pothos::Block::setupOutput(0, dtype)
setupOutput(dtype) == [setup |-> TRUE, dtype |-> dtype, elements |-> 0]

\* variant: the emission skipped when the value does not change
setConstantBody_OnChange(value) ==
    [stored |-> value,
     events |-> IF block = "ConstArithmetic" /\ value = _constant
                THEN << Event("store", value) >>
                ELSE << Event("store", value), Event("emitSignal", value) >>]

\* the body of setConstant(constant): the store, then the emission
setConstantBody(value) ==
    [stored |-> value,
     events |-> << Event("store", value), Event("emitSignal", value) >>]

IsEmitSignal(e) == e.ev = "emitSignal"

\* Pothos::Block::emitSignal("constantChanged", arg), once per emission of a call
Emit(evs) ==
    LET em == SelectSeq(evs, IsEmitSignal)
    IN  /\ signals' = signals + Len(em)
        /\ lastSignal' = IF Len(em) = 0 THEN lastSignal ELSE em[Len(em)].arg

\* variant: the constructor initialises _constant directly, without the setter
ConstArithmeticCtor_DirectInit(T, func, value, dimension) ==
    /\ block' = "ConstArithmetic"
    /\ elemT' = T
    /\ _func' = func
    /\ inPort' = setupInput(DType(T, dimension))
    /\ outPort' = setupOutput(DType(T, dimension))
    /\ _constant' = value
    /\ events' = << Event("setupInput", DType(T, dimension)),
                    Event("setupOutput", DType(T, dimension)),
                    Event("store", value) >>
    /\ UNCHANGED <<signals, lastSignal>>

(***************************************************************************)
(* ConstArithmetic<T>::ConstArithmetic(func, constant, dimension)          *)
(***************************************************************************)
ConstArithmeticCtor(T, func, value, dimension) ==
    LET set == setConstantBody(value)   \* this->setConstant(constant)
        evs == << Event("setupInput", DType(T, dimension)),
                  Event("setupOutput", DType(T, dimension)) >> \o set.events
    IN  /\ block' = "ConstArithmetic"
        /\ elemT' = T
        /\ _func' = func
        /\ inPort' = setupInput(DType(T, dimension))
        /\ outPort' = setupOutput(DType(T, dimension))
        /\ _constant' = set.stored
        /\ events' = evs
        /\ Emit(evs)

(***************************************************************************)
(* makeConstArithmetic(dtype, operation, constant)                         *)
(***************************************************************************)
makeConstArithmetic(dtype, operation, object) ==
    /\ block = "none"
    /\ ~crashed
    /\ lastOp' = "makeConstArithmetic"
    /\ request' = [factory |-> "makeConstArithmetic", dtype |-> dtype,
                   operation |-> operation, constant |-> object]
    /\ LET i == ArithFirst(dtype, operation)
       IN  IF i = 0
           THEN /\ thrown' = ArithInvalidArgument(dtype, operation)
                /\ events' = <<>>
                /\ UNCHANGED <<unitVars, lastSetArg>>
           ELSE IF ~object.convertible
           THEN /\ thrown' = ConvertError
                /\ events' = <<>>
                /\ UNCHANGED <<unitVars, lastSetArg>>
           ELSE /\ thrown' = NoError
                /\ lastSetArg' = object.value
                /\ ConstArithmeticCtor(ArithChain[i].type, ArithChain[i].func,
                                       object.value, dtype.dim)
    /\ UNCHANGED <<setCalls, crashed>>

(***************************************************************************)
(* Angle<InType, OutType>::Angle(dimension)                                *)
(***************************************************************************)
AngleCtor(InType, OutType, dimension) ==
    /\ block' = "Angle"
    /\ elemT' = InType
    /\ _func' = getAngleFcn(InType, OutType)
    /\ inPort' = setupInput(DType(InType, dimension))
    /\ outPort' = setupOutput(DType(OutType, dimension))
    /\ events' = << Event("setupInput", DType(InType, dimension)),
                    Event("setupOutput", DType(OutType, dimension)) >>
    /\ UNCHANGED <<_constant, signals, lastSignal>>

(***************************************************************************)
(* angleFactory(dtype)                                                     *)
(***************************************************************************)
angleFactory(dtype) ==
    /\ block = "none"
    /\ ~crashed
    /\ lastOp' = "angleFactory"
    /\ request' = [factory |-> "angleFactory", dtype |-> dtype, operation |-> "",
                   constant |-> NotANumber]
    /\ LET i == AngleFirst(dtype)
       IN  IF i = 0
           THEN /\ thrown' = AngleInvalidArgument(dtype)
                /\ events' = <<>>
                /\ UNCHANGED unitVars
           ELSE /\ thrown' = NoError
                /\ AngleCtor(AngleChain[i].intype, AngleChain[i].outtype, dtype.dim)
    /\ UNCHANGED <<setCalls, lastSetArg, crashed>>

(***************************************************************************)
(* ConstArithmetic<T>::setConstant(constant)                               *)
(***************************************************************************)
setConstant(value) ==
    /\ block = "ConstArithmetic"
    /\ ~crashed
    /\ setCalls < MaxSetCalls
    /\ LET set == setConstantBody(value)
       IN  /\ _constant' = set.stored
           /\ events' = set.events
           /\ Emit(set.events)
    /\ lastOp' = "setConstant"
    /\ setCalls' = setCalls + 1
    /\ lastSetArg' = value
    /\ thrown' = NoError
    /\ UNCHANGED <<block, elemT, _func, inPort, outPort, request, crashed>>

(***************************************************************************)
(* ConstArithmetic<T>::constant()                                          *)
(***************************************************************************)
constant ==
    /\ block = "ConstArithmetic"
    /\ ~crashed
    /\ events' = << Event("return", _constant) >>
    /\ lastOp' = "constant"
    /\ thrown' = NoError
    /\ UNCHANGED <<unitVars, request, setCalls, lastSetArg, crashed>>

(***************************************************************************)
(* The host posts buffers: the first nIn elements of the stream wait on    *)
(* the input port, there is room for nOut on the output port.              *)
(***************************************************************************)
HostPost(nIn, nOut) ==
    /\ block # "none"
    /\ ~crashed
    /\ inPort' = [inPort EXCEPT !.elements = nIn,
                                !.buffer = StreamBuffer(elemT, nIn * inPort.dtype.dim)]
    /\ outPort' = [outPort EXCEPT !.elements = nOut]
    /\ events' = <<>>
    /\ lastOp' = "post"
    /\ thrown' = NoError
    /\ UNCHANGED <<block, elemT, _constant, _func, signals, lastSignal,
                   request, setCalls, lastSetArg, crashed>>

\* variant: only the input port is asked
minElements_InputOnly == inPort.elements

\* Pothos::WorkInfo::minElements: the least elements count over all ports
minElements == IF inPort.elements < outPort.elements THEN inPort.elements
               ELSE outPort.elements

\* this->workInfo(), asked on the counts the two ports have at that moment
workInfo == Event("workInfo", [in |-> inPort.elements, out |-> outPort.elements])

\* variant: no early return
EarlyReturn_Never(elems) == FALSE

\* if (0 == elems) return;
EarlyReturn(elems) == elems = 0

\* port->buffer() as the kernel sees it: the first num elements behind the pointer
Region(buffer, num) == SubSeq(buffer, 1, num)

\* InputPort::consume(n)
consume(port, n) ==
    [port EXCEPT !.elements = @ - n,
                 !.buffer = SubSeq(@, n * port.dtype.dim + 1, Len(@))]

\* OutputPort::produce(n)
produce(port, n) == [port EXCEPT !.elements = @ - n]

\* variant: the dimension left out of the count
KernelCount_NoDimension(elems, port) == elems

\* the count work() hands to the kernel: elems*input->dtype().dimension()
KernelCount(elems, port) == elems * port.dtype.dim

\* variant: the kernel keeps the constant the block was built with
KernelConstant_AtConstruction == request.constant.value

\* the constant work() hands to the kernel
KernelConstant == _constant

\* variant: produce reported before the kernel has run
WorkEvents_ProduceFirst(elems, k, num, in, out) ==
    << Event("buffer", "in"), Event("buffer", "out"),
       Event("produce", elems),
       Event("kernel", [in |-> in, k |-> k, num |-> num, out |-> out]),
       Event("consume", elems) >>

\* the calls of work() after the early return, in program order
WorkEvents(elems, k, num, in, out) ==
    << Event("buffer", "in"), Event("buffer", "out"),
       Event("kernel", [in |-> in, k |-> k, num |-> num, out |-> out]),
       Event("consume", elems), Event("produce", elems) >>

\* the lanes a kernel has written when lane i traps
WrittenBefore(func, in, k, num, out) ==
    LET bad == {i \in 1..num : HitsUB(func, <<in[i]>>, k, 1)}
        first == CHOOSE i \in bad : \A j \in bad : i <= j
    IN  SubSeq(out, 1, first - 1)

(***************************************************************************)
(* ConstArithmetic<T>::work() and Angle<InType, OutType>::work()           *)
(***************************************************************************)
work(ub) ==
    /\ block # "none"
    /\ ~crashed
    /\ lastOp' = "work"
    /\ thrown' = NoError
    /\ LET elems == minElements
       IN  IF EarlyReturn(elems)
           THEN /\ events' = << workInfo >>
                /\ UNCHANGED <<inPort, outPort, crashed>>
           ELSE LET num == KernelCount(elems, inPort)
                    in == Region(inPort.buffer, num)
                    k == KernelConstant
                    out == IF block = "Angle" THEN AngleLoop(in, num)
                           ELSE CallArithFcn(_func, in, k, num, ub)
                IN  IF block = "ConstArithmetic" /\ HitsUB(_func, in, k, num) /\ ub = "trap"
                    THEN \* SIGFPE inside the kernel: nothing after it runs
                         /\ crashed' = TRUE
                         /\ events' = << workInfo >> \o
                               SubSeq(WorkEvents(elems, k, num, in,
                                                 WrittenBefore(_func, in, k, num, out)), 1, 3)
                         /\ UNCHANGED <<inPort, outPort>>
                    ELSE /\ events' = << workInfo >> \o WorkEvents(elems, k, num, in, out)
                         /\ inPort' = consume(inPort, elems)
                         /\ outPort' = produce(outPort, elems)
                         /\ UNCHANGED crashed
    /\ UNCHANGED <<block, elemT, _constant, _func, signals, lastSignal,
                   request, setCalls, lastSetArg>>

\* the constants a caller may pass for a requested type
ConstantsFor(dtype) ==
    IF dtype.kind = "custom" THEN {0} ELSE Range(ConstantValues(TypeOf(dtype)))

\* a caller asks makeConstArithmetic for a block; one request per behaviour
CallMakeConstArithmetic ==
    /\ lastOp = "none"
    /\ \E dtype \in DTypes, operation \in Operations \cup OtherOperations :
          \/ \E v \in ConstantsFor(dtype) : makeConstArithmetic(dtype, operation, Object(v))
          \/ makeConstArithmetic(dtype, operation, NotANumber)

\* a caller asks angleFactory for a block
CallAngleFactory ==
    /\ lastOp = "none"
    /\ \E dtype \in DTypes : angleFactory(dtype)

CallSetConstant ==
    /\ block = "ConstArithmetic"
    /\ \E v \in ConstantsFor(DType(elemT, 1)) : setConstant(v)

Next ==
    \/ CallMakeConstArithmetic
    \/ CallAngleFactory
    \/ CallSetConstant
    \/ constant
    \/ \E nIn \in 0..MaxElems, nOut \in 0..MaxElems : HostPost(nIn, nOut)
    \/ \E ub \in UBOutcomes : work(ub)

Spec == Init /\ [][Next]_vars

(***************************************************************************)
(* Properties.  `events` holds the calls of the latest operation, so a     *)
(* state with lastOp = "work" shows one whole step(): events[1] is the     *)
(* workInfo query with the counts both ports had when the step began.      *)
(***************************************************************************)
Min(a, b) == IF a < b THEN a ELSE b

IsKernel(e) == e.ev = "kernel"
IsConsume(e) == e.ev = "consume"
IsProduce(e) == e.ev = "produce"

KernelCalls == SelectSeq(events, IsKernel)

\* n: the usable elements the latest step saw
UsableElements == Min(events[1].arg.in, events[1].arg.out)

\* the latest step saw n > 0 and returned
StepReturned == lastOp = "work" /\ ~crashed /\ UsableElements > 0

\* C1: a step that sees n > 0 usable elements (n the minimum of the two ports'
\* counts) and returns has called consume exactly once, with n, and produce
\* exactly once, with n, whatever the dimension and the element type; neither
\* port is asked for more than it had.
C1_ConsumeAndProduceOnce ==
    StepReturned =>
        /\ SelectSeq(events, IsConsume) = << Event("consume", UsableElements) >>
        /\ SelectSeq(events, IsProduce) = << Event("produce", UsableElements) >>
        /\ inPort.elements = events[1].arg.in - UsableElements
        /\ outPort.elements = events[1].arg.out - UsableElements
        /\ inPort.elements >= 0
        /\ outPort.elements >= 0

C1_Witness ==
    /\ StepReturned
    /\ elemT.cplx
    /\ block = "ConstArithmetic"
    /\ request.dtype.dim = 2
    /\ events[1].arg = [in |-> 2, out |-> 1]
    /\ Len(SelectSeq(events, IsConsume)) = 1

\* C2: a step that sees zero usable elements only asks workInfo: it reads no
\* buffer pointer, runs no kernel, calls neither consume nor produce, and leaves
\* both ports, the constant and the kernel as they were; every such step does.
C2_ZeroStepIsIdle ==
    [][ (lastOp' = "work" /\ (inPort.elements = 0 \/ outPort.elements = 0)) =>
            /\ events' = << Event("workInfo", [in |-> inPort.elements,
                                               out |-> outPort.elements]) >>
            /\ UNCHANGED <<inPort, outPort, _constant, _func, signals, lastSignal, crashed>>
      ]_vars

C2_Witness ==
    /\ lastOp = "work"
    /\ Len(events) = 1
    /\ inPort.elements = 0
    /\ outPort.elements = 2

\* C3: a step of a ConstArithmetic block that invokes the kernel invokes it once
\* and passes the argument of the latest setConstant call (the constructor's call
\* when there was no later one).
C3_KernelGetsLatestConstant ==
    (block = "ConstArithmetic" /\ lastOp = "work" /\ Len(KernelCalls) > 0) =>
        /\ Len(KernelCalls) = 1
        /\ KernelCalls[1].arg.k = lastSetArg

C3_Witness ==
    /\ block = "ConstArithmetic"
    /\ lastOp = "work"
    /\ setCalls > 0
    /\ lastSetArg # request.constant.value
    /\ Len(KernelCalls) = 1
    /\ KernelCalls[1].arg.k = lastSetArg

\* C4: every setConstant(v) stores v and then emits "constantChanged" once,
\* carrying v, also when v is the value already stored; work(), constant() and
\* the host's posting emit nothing.
C4_OneSignalPerSetConstant ==
    [][ /\ lastOp' = "setConstant" =>
              /\ signals' = signals + 1
              /\ lastSignal' = lastSetArg'
              /\ _constant' = lastSetArg'
              /\ events' = << Event("store", lastSetArg'),
                              Event("emitSignal", lastSetArg') >>
        /\ lastOp' \in {"work", "constant", "post"} =>
              /\ signals' = signals
              /\ lastSignal' = lastSignal
              /\ SelectSeq(events', IsEmitSignal) = <<>>
      ]_vars

C4_Witness ==
    /\ lastOp = "setConstant"
    /\ setCalls = 1
    /\ lastSetArg = request.constant.value
    /\ signals = 2

\* what the factories' documentation lists
AngleSupports(dtype) == dtype.cplx /\ dtype.kind \in {"int", "float"}

ArithSupports(dtype, operation) ==
    /\ dtype.kind \in {"int", "uint", "float"}
    /\ operation \in {"X+K", "X-K", "K-X", "X*K", "X/K", "K/X"}

NothingBuilt ==
    /\ block = "none"
    /\ ~inPort.setup
    /\ ~outPort.setup
    /\ signals = 0
    /\ events = <<>>
    /\ _func = NullFcn
    /\ _constant = "unset"

\* C5: a request for a type outside the factory's list, or for an operation
\* string that is none of the six, throws InvalidArgumentException naming the
\* requested type (and operation) and builds nothing: no port is set up, no
\* constant is stored, no signal is emitted.
C5_UnsupportedRequestBuildsNothing ==
    /\ (lastOp = "angleFactory" /\ ~AngleSupports(request.dtype)) =>
          /\ thrown.exception = "InvalidArgumentException"
          /\ thrown.source = "angleFactory(" \o toString(request.dtype) \o ")"
          /\ NothingBuilt
    /\ (lastOp = "makeConstArithmetic"
          /\ ~ArithSupports(request.dtype, request.operation)) =>
          /\ thrown.exception = "InvalidArgumentException"
          /\ thrown.source = "makeConstArithmetic(" \o toString(request.dtype)
                                \o ", operation=" \o request.operation \o ")"
          /\ NothingBuilt

C5_Witness ==
    /\ lastOp = "angleFactory"
    /\ request.dtype = DType(Complex(uint16_t), 2)
    /\ thrown.exception = "InvalidArgumentException"
    /\ block = "none"

KernelNamed(operation) ==
    CASE operation = "X+K" -> "XPlusK"
      [] operation = "X-K" -> "XSubK"
      [] operation = "K-X" -> "KSubX"
      [] operation = "X*K" -> "XMultK"
      [] operation = "X/K" -> "XDivK"
      [] operation = "K/X" -> "KDivX"

PortsDeclared(dimension) ==
    /\ inPort.setup
    /\ outPort.setup
    /\ inPort.dtype.dim = dimension
    /\ outPort.dtype.dim = dimension

\* C6: a request for a listed type (and one of the six operations, with a
\* constant that converts) of any dimension D succeeds: the block holds the
\* kernel of that operation and type, not a null one, and both ports have
\* dimension D.
C6_SupportedRequestBuildsUnit ==
    /\ (lastOp = "angleFactory" /\ AngleSupports(request.dtype)) =>
          /\ thrown = NoError
          /\ block = "Angle"
          /\ _func # NullFcn
          /\ _func = [fcn |-> "Angle", T |-> TypeOf(request.dtype)]
          /\ PortsDeclared(request.dtype.dim)
    /\ (lastOp = "makeConstArithmetic"
          /\ ArithSupports(request.dtype, request.operation)
          /\ request.constant.convertible) =>
          /\ thrown = NoError
          /\ block = "ConstArithmetic"
          /\ _func # NullFcn
          /\ _func = [fcn |-> KernelNamed(request.operation), T |-> TypeOf(request.dtype)]
          /\ PortsDeclared(request.dtype.dim)

C6_Witness ==
    /\ lastOp = "makeConstArithmetic"
    /\ block = "ConstArithmetic"
    /\ request.dtype = DType(Complex(uint64_t), 2)
    /\ request.operation = "K/X"
    /\ _func.fcn = "KDivX"

\* the quotient the operation takes in a lane is defined
QuotientDefined(operation, T, x, k) ==
    /\ operation = "X/K" => ~DivUndefined(T, x, k)
    /\ operation = "K/X" => ~DivUndefined(T, k, x)

\* what the operation named by the string is, on x and k
Expected(operation, T, x, k) ==
    CASE operation = "X+K" -> Add(T, x, k)
      [] operation = "X-K" -> Sub(T, x, k)
      [] operation = "K-X" -> Sub(T, k, x)
      [] operation = "X*K" -> Mul(T, x, k)
      [] operation = "X/K" -> Div(T, x, k)
      [] operation = "K/X" -> Div(T, k, x)

\* q is the quotient a / b rounded toward zero
IsTruncatedQuotient(q, a, b) ==
    LET r == a - q * b
    IN  /\ Abs(r) < Abs(b)
        /\ r = 0 \/ (r > 0) = (a > 0)

\* C7: a step of a block built for operation string op with constant k writes,
\* for every lane i of the region, out[i] = in[i]+k, in[i]-k, k-in[i], in[i]*k,
\* in[i]/k or k/in[i] according to op (where the quotient is defined); K-X with
\* k = 10 on int32 1,2,3 gives 9,8,7 and X+K with 3.0 on float 1,2,-3 gives 4,5,0.
C7_OperandOrder ==
    (block = "ConstArithmetic" /\ StepReturned) =>
        LET call == KernelCalls[1].arg
            op == request.operation
            T == TypeOf(request.dtype)
        IN  /\ Len(call.in) = UsableElements * request.dtype.dim
            /\ Len(call.out) = Len(call.in)
            /\ \A i \in 1..Len(call.in) :
                  QuotientDefined(op, T, call.in[i], call.k) =>
                      call.out[i] = Expected(op, T, call.in[i], call.k)
            /\ (T = int32_t /\ op = "K-X" /\ call.k = 10) =>
                  \A i \in 1..Len(call.in) :
                      call.in[i] \in 1..3 => call.out[i] = 10 - call.in[i]
            /\ (T = int32_t /\ op = "X-K" /\ call.k = 10) =>
                  \A i \in 1..Len(call.in) :
                      call.in[i] \in 1..3 => call.out[i] = call.in[i] - 10
            /\ (T = float /\ op = "X+K" /\ call.k = <<3, 1>> /\ Len(call.in) >= 3) =>
                  (SubSeq(call.in, 1, 3) = << <<1, 1>>, <<2, 1>>, <<-3, 1>> >>
                     => SubSeq(call.out, 1, 3) = << <<4, 1>>, <<5, 1>>, <<0, 1>> >>)
            /\ (T \in {int8_t, int16_t, int32_t, int64_t} /\ op = "X/K" /\ call.k # 0) =>
                  \A i \in 1..Len(call.in) :
                      IsTruncatedQuotient(call.out[i], call.in[i], call.k)
            /\ (T \in {int8_t, int16_t, int32_t, int64_t} /\ op = "K/X") =>
                  \A i \in 1..Len(call.in) :
                      call.in[i] # 0 => IsTruncatedQuotient(call.out[i], call.k, call.in[i])

C7_Witness ==
    /\ block = "ConstArithmetic"
    /\ StepReturned
    /\ elemT = int32_t
    /\ request.operation = "K-X"
    /\ KernelCalls[1].arg.k = 10
    /\ Len(KernelCalls[1].arg.out) >= 3
    /\ SubSeq(KernelCalls[1].arg.in, 1, 3) = <<1, 2, 3>>
    /\ SubSeq(KernelCalls[1].arg.out, 1, 3) = <<9, 8, 7>>

\* C8 as stated: the count handed to the kernel is n*D, doubled for a complex
\* element type.
C8_CountDoubledForComplex ==
    (lastOp = "work" /\ Len(KernelCalls) > 0) =>
        KernelCalls[1].arg.num =
            UsableElements * request.dtype.dim * (IF elemT.cplx THEN 2 ELSE 1)

\* C8, amended: the count handed to the kernel is n*D elements of the block's
\* element type, for a complex type as for a real one, and the region the kernel
\* reads holds that many elements.
C8_CountIsElementsTimesDimension ==
    (lastOp = "work" /\ Len(KernelCalls) > 0) =>
        /\ UsableElements > 0
        /\ KernelCalls[1].arg.num = UsableElements * request.dtype.dim
        /\ Len(KernelCalls[1].arg.in) = KernelCalls[1].arg.num

C8_Witness ==
    /\ lastOp = "work"
    /\ elemT.cplx
    /\ request.dtype.dim = 2
    /\ Len(KernelCalls) = 1
    /\ events[1].arg = [in |-> 2, out |-> 2]
    /\ KernelCalls[1].arg.num = 4

\* C9: a step with n > 0 that returns has read the input and the output buffer
\* pointer, then run the kernel over the whole region, then called consume(n),
\* then produce(n), in that order; a step whose kernel did not finish has called
\* neither.
C9_StepOrder ==
    /\ StepReturned =>
          /\ [i \in 1..Len(events) |-> events[i].ev] =
                <<"workInfo", "buffer", "buffer", "kernel", "consume", "produce">>
          /\ events[2].arg = "in"
          /\ events[3].arg = "out"
          /\ Len(events[4].arg.out) = UsableElements * request.dtype.dim
          /\ events[5].arg = UsableElements
          /\ events[6].arg = UsableElements
    /\ (lastOp = "work" /\ crashed) =>
          /\ SelectSeq(events, IsConsume) = <<>>
          /\ SelectSeq(events, IsProduce) = <<>>

C9_Witness ==
    /\ StepReturned
    /\ block = "Angle"
    /\ Len(events) = 6
    /\ events[6] = Event("produce", 2)

\* C10: the constructor emits "constantChanged" once, carrying the initial
\* constant; so after k setConstant calls, and any steps and constant() calls,
\* k + 1 signals have been emitted and constant() returns the value the latest
\* one carried.
C10_SignalsCountCalls ==
    block = "ConstArithmetic" =>
        /\ signals = setCalls + 1
        /\ _constant = lastSignal
        /\ lastOp = "constant" => events = << Event("return", lastSignal) >>
        /\ lastOp = "makeConstArithmetic" =>
              /\ signals = 1
              /\ SelectSeq(events, IsEmitSignal) =
                    << Event("emitSignal", request.constant.value) >>
              /\ lastSignal = request.constant.value

C10_Witness ==
    /\ block = "ConstArithmetic"
    /\ lastOp = "constant"
    /\ setCalls = 1
    /\ signals = 2
    /\ lastSignal # request.constant.value

====
